---- MODULE Spec2Model ----
(***************************************************************************)
(* Model of the Docker image authorization plugin (src/main/plugin.go).    *)
(*                                                                         *)
(* Strings are sequences of one-character strings, so that splitting,      *)
(* suffix tests and percent-decoding are computed character by character.  *)
(* Literal response messages are carried as one chunk.                     *)
(***************************************************************************)
EXTENDS Integers, Sequences, FiniteSets, TLC

\* ------------------------------------------------------------------ bounds
MaxLen == 3
MaxPolicy == 2
NumWorkers == 2

\* -------------------------------------------------------- string literals
library == <<"l", "i", "b", "r", "a", "r", "y">>
containersCreate == <<"/", "c", "o", "n", "t", "a", "i", "n", "e", "r", "s", "/", "c", "r", "e", "a", "t", "e">>
imagesCreate == <<"/", "i", "m", "a", "g", "e", "s", "/", "c", "r", "e", "a", "t", "e">>
fromImage == <<"f", "r", "o", "m", "I", "m", "a", "g", "e">>
MsgNoRegistries == <<"No authorized registries configured">>
MsgNoImages == <<"No authorized images configured">>
MsgOnlyFrom == <<"You can only use docker images from the following authorized registries: ">>
EmptyStr == <<>>

\* ------------------------------------------------- package strings (Go)
HasPrefix(s, prefix) ==
    /\ Len(s) >= Len(prefix)
    /\ SubSeq(s, 1, Len(prefix)) = prefix

HasSuffix(s, suffix) ==
    /\ Len(s) >= Len(suffix)
    /\ SubSeq(s, Len(s) - Len(suffix) + 1, Len(s)) = suffix

\* strings.Index for a one-character separator: 0-based, -1 when absent
Index(s, c) ==
    IF \E i \in 1..Len(s) : s[i] = c
    THEN (CHOOSE i \in 1..Len(s) : s[i] = c /\ \A j \in 1..(i - 1) : s[j] # c) - 1
    ELSE -1

\* the Go slice expression s[lo:hi], 0-based and half-open
Slice(s, lo, hi) == SubSeq(s, lo + 1, hi)

Count(s, c) == Cardinality({i \in 1..Len(s) : s[i] = c})

\* strings.Cut for a one-character separator
Cut(s, c) ==
    LET idx == Index(s, c)
    IN  IF idx = -1
        THEN [before |-> s, after |-> EmptyStr, found |-> FALSE]
        ELSE [before |-> Slice(s, 0, idx), after |-> Slice(s, idx + 1, Len(s)), found |-> TRUE]

RECURSIVE Join(_, _)
Join(elems, sep) ==
    IF Len(elems) = 0 THEN EmptyStr
    ELSE IF Len(elems) = 1 THEN elems[1]
    ELSE elems[1] \o sep \o Join(Tail(elems), sep)

\* ---------------------------------------------------- package net/url (Go)
HexDigits == {"0", "1", "2", "3", "4", "5", "6", "7", "8", "9",
              "a", "b", "c", "d", "e", "f", "A", "B", "C", "D", "E", "F"}

ishex(c) == c \in HexDigits

\* the byte a valid escape %h1h2 stands for; bytes outside the table are
\* kept as one opaque character
unhexPair(h1, h2) ==
    CASE h1 = "2" /\ h2 \in {"F", "f"} -> "/"
      [] h1 = "2" /\ h2 = "5" -> "%"
      [] h1 = "2" /\ h2 = "6" -> "&"
      [] h1 = "2" /\ h2 \in {"B", "b"} -> "+"
      [] h1 = "2" /\ h2 = "0" -> " "
      [] h1 = "3" /\ h2 \in {"D", "d"} -> "="
      [] h1 = "3" /\ h2 \in {"F", "f"} -> "?"
      [] h1 = "6" /\ h2 = "1" -> "a"
      [] OTHER -> "%" \o h1 \o h2

\* opaque bytes below 0x20, and 0x7f, are control bytes
isCTL(c) ==
    \E h1 \in {"0", "1"}, h2 \in HexDigits : c = "%" \o h1 \o h2 \/ c \in {"%7F", "%7f"}

RECURSIVE unescapeBytes(_, _)
unescapeBytes(s, mode) ==
    IF Len(s) = 0 THEN EmptyStr
    ELSE IF s[1] = "%"
         THEN <<unhexPair(s[2], s[3])>> \o unescapeBytes(SubSeq(s, 4, Len(s)), mode)
    ELSE IF s[1] = "+" /\ mode = "encodeQueryComponent"
         THEN <<" ">> \o unescapeBytes(Tail(s), mode)
    ELSE <<s[1]>> \o unescapeBytes(Tail(s), mode)

\* url.unescape: an escape that is cut short or is not two hex digits is an
\* error, and the result is then the empty string
unescape(s, mode) ==
    IF \E i \in 1..Len(s) :
          /\ s[i] = "%"
          /\ (i + 2 > Len(s) \/ ~ishex(s[i + 1]) \/ ~ishex(s[i + 2]))
    THEN [s |-> EmptyStr, err |-> TRUE]
    ELSE [s |-> unescapeBytes(s, mode), err |-> FALSE]

QueryUnescape(s) == unescape(s, "encodeQueryComponent")

NilURL == [nil |-> TRUE, Path |-> EmptyStr, RawQuery |-> EmptyStr]

\* url.ParseRequestURI for URIs without a scheme: nil on error
ParseRequestURI(rawURL) ==
    IF \E i \in 1..Len(rawURL) : isCTL(rawURL[i]) THEN NilURL
    ELSE IF rawURL = EmptyStr THEN NilURL
    ELSE IF rawURL = <<"*">> THEN [nil |-> FALSE, Path |-> <<"*">>, RawQuery |-> EmptyStr]
    ELSE LET forceQuery == HasSuffix(rawURL, <<"?">>) /\ Count(rawURL, "?") = 1
             cut == Cut(rawURL, "?")
             rest == IF forceQuery THEN Slice(rawURL, 0, Len(rawURL) - 1) ELSE cut.before
             rawQuery == IF forceQuery THEN EmptyStr ELSE cut.after
             path == unescape(rest, "encodePath")
         IN  IF ~HasPrefix(rest, <<"/">>) THEN NilURL
             ELSE IF path.err THEN NilURL
             ELSE [nil |-> FALSE, Path |-> path.s, RawQuery |-> rawQuery]

\* url.ParseQuery followed by Values.Get(key): the value of the first
\* well-formed pair whose decoded key is key, "" when there is none
RECURSIVE QueryGet(_, _)
QueryGet(query, key) ==
    IF query = EmptyStr THEN EmptyStr
    ELSE LET pair == Cut(query, "&")
             kv == Cut(pair.before, "=")
             k == QueryUnescape(kv.before)
             v == QueryUnescape(kv.after)
         IN  IF pair.before # EmptyStr /\ Count(pair.before, ";") = 0 /\ ~k.err /\ ~v.err /\ k.s = key
             THEN v.s
             ELSE QueryGet(pair.after, key)

\* --------------------------------------------------- package encoding/json
\* A request body is carried by what json.Unmarshal makes of it:
\*   "object"    a JSON object whose Image member (when present) is a string
\*   "typeError" such an object with another member of the wrong type:
\*               Unmarshal reports the error and still fills in Image
\*   "invalid"   anything else (empty, syntax error, not an object, Image
\*               not a string): the config is left untouched
BodyKinds == {"object", "typeError", "invalid"}

Unmarshal(body) ==
    [Image |-> IF body.kind \in {"object", "typeError"} THEN body.Image ELSE EmptyStr,
     err |-> body.kind # "object"]

\* ------------------------------------------------------------- the plugin
\* a Go map[string]bool read with m[k]: false for a missing key
MapGet(m, k) == IF k \in DOMAIN m THEN m[k] ELSE FALSE

\* the orders in which `for k := range m` may visit the keys
RangeOrders(m) ==
    {o \in [1..Cardinality(DOMAIN m) -> DOMAIN m] :
        \A i, j \in DOMAIN o : i # j => o[i] # o[j]}

authRegistries(keys) == Join(keys, <<",", " ">>)

authImages(keys) == Join(keys, <<",", " ">>)

newPlugin(registries, images, registryOrder, imageOrder) ==
    [authorizedRegistries |-> registries,
     authorizedImages |-> images,
     numAuthorizedRegistries |-> Cardinality(DOMAIN registries),
     numAuthorizedImages |-> Cardinality(DOMAIN images),
     authRegistriesAsString |-> authRegistries(registryOrder),
     authImagesAsString |-> authImages(imageOrder)]

\* mutant: an empty whitelist counts as configured
hasAuthorizedRegistries_always(p) == p.numAuthorizedRegistries >= 0

hasAuthorizedRegistries(p) == p.numAuthorizedRegistries > 0

hasAuthorizedImages(p) == p.numAuthorizedImages > 0

\* mutant: the body is read whatever the path is
imagePathOf_anyPath(req, reqURL) ==
    IF HasSuffix(reqURL.Path, imagesCreate)
    THEN QueryGet(reqURL.RawQuery, fromImage)
    ELSE Unmarshal(req.RequestBody).Image

\* processRequest, lines 92-102: the candidate image reference (reqURL is
\* non-nil here)
imagePathOf(req, reqURL) ==
    LET fromBody == IF HasSuffix(reqURL.Path, containersCreate)
                    THEN Unmarshal(req.RequestBody).Image
                    ELSE EmptyStr
    IN  IF HasSuffix(reqURL.Path, imagesCreate)
        THEN QueryGet(reqURL.RawQuery, fromImage)
        ELSE fromBody

\* mutant: the image starts after the separator
splitImage_afterSlash(imagePath) ==
    LET idx == Index(imagePath, "/")
    IN  IF idx # -1
        THEN [registry |-> Slice(imagePath, 0, idx),
              image |-> Slice(imagePath, idx + 1, Len(imagePath))]
        ELSE [registry |-> library, image |-> EmptyStr]

\* processRequest, lines 105-111: registry and image of a non-empty reference
splitImage(imagePath) ==
    LET idx == Index(imagePath, "/")
    IN  IF idx # -1
        THEN [registry |-> Slice(imagePath, 0, idx),
              image |-> Slice(imagePath, idx, Len(imagePath))]
        ELSE [registry |-> library, image |-> EmptyStr]

processRequest(req, reqURL) ==
    LET imagePath == imagePathOf(req, reqURL)
        split == splitImage(imagePath)
    IN  IF Len(imagePath) > 0
        THEN [imagePath |-> imagePath, registry |-> split.registry,
              image |-> split.image, isRegistryCommand |-> TRUE]
        ELSE [imagePath |-> imagePath, registry |-> EmptyStr,
              image |-> EmptyStr, isRegistryCommand |-> FALSE]

\* mutant: either match is enough
isAuthorized_either(p, requestedRegistry, requestedImage) ==
    MapGet(p.authorizedRegistries, requestedRegistry) \/ MapGet(p.authorizedImages, requestedImage)

\* the test of line 153
isAuthorized(p, requestedRegistry, requestedImage) ==
    MapGet(p.authorizedRegistries, requestedRegistry) /\ MapGet(p.authorizedImages, requestedImage)

DeniedMsg(p) == MsgOnlyFrom \o p.authRegistriesAsString

\* ------------------------------------------------------------------ inputs
Alphabet == {"a", "/"}

Strings(n) == UNION {[1..k -> Alphabet] : k \in 0..n}

ImageRefs == Strings(MaxLen)

containersList == <<"/", "c", "o", "n", "t", "a", "i", "n", "e", "r", "s", "/", "l", "i", "s", "t">>
queryFromImage == <<"?">> \o fromImage \o <<"=">>

Paths ==
    {prefix \o tail : prefix \in {EmptyStr, <<"/", "v", "1">>},
                      tail \in {containersCreate, imagesCreate, containersList}}
    \cup {EmptyStr,
          <<"v", "1">> \o imagesCreate,
          <<"/", "i", "m", "a", "g", "e", "s", "%", "2", "F", "c", "r", "e", "a", "t", "e">>,
          imagesCreate \o <<"%", "2", "5">>,
          containersList \o <<"%", "z", "z">>}

Queries ==
    {EmptyStr, <<"?">>}
    \cup {queryFromImage \o r : r \in ImageRefs}
    \cup {queryFromImage \o <<"a", "%", "2", "F", "a">>,
          queryFromImage \o <<"a", "%", "2", "5">>,
          <<"?", "x", "=", "a", "&">> \o fromImage \o <<"=", "a">>}

URIs == {path \o query : path \in Paths, query \in Queries}

NoBody == [kind |-> "invalid", Image |-> EmptyStr]

Bodies ==
    {[kind |-> k, Image |-> r] : k \in {"object", "typeError"}, r \in ImageRefs}
    \cup {NoBody}

BodyURIs ==
    {<<"/", "v", "1">> \o containersCreate,
     containersList,
     imagesCreate \o queryFromImage \o <<"a">>}

Request(method, uri, body) ==
    [RequestMethod |-> method, RequestURI |-> uri, RequestBody |-> body]

Requests ==
    {Request("POST", uri, NoBody) : uri \in URIs}
    \cup {Request("POST", uri, body) : uri \in BodyURIs, body \in Bodies}

ConcRequests ==
    {Request(m, imagesCreate \o queryFromImage \o <<"a", "/", "a">>, NoBody) : m \in {"GET", "POST"}}
    \cup {Request("POST", imagesCreate \o queryFromImage \o <<"a">>, NoBody),
          Request("GET", containersList, NoBody),
          Request("POST", EmptyStr, NoBody)}

\* the -registry and -image flags main() collects into the two maps
RegistryPool == {library, <<"a">>, EmptyStr}
ImagePool == {<<"a">>, <<"/", "a">>, EmptyStr}
ConcRegistryPool == {library, <<"a">>}
ConcImagePool == {<<"/", "a">>, EmptyStr}

FlagSets(pool) == {S \in SUBSET pool : Cardinality(S) <= MaxPolicy}

\* ------------------------------------------------------------------- state
VARIABLES plugin, calls

vars == <<plugin, calls>>

Workers == 1..NumWorkers

NoRequest == Request("", EmptyStr, NoBody)
NoResponse == [Allow |-> FALSE, Msg |-> EmptyStr]

\* authorization.Response{Allow: ..., Msg: ...}
Response(allow, msg) == [Allow |-> allow, Msg |-> msg]

Idle ==
    [pc |-> "idle", kind |-> "none", req |-> NoRequest, reqURL |-> NilURL,
     imagePath |-> EmptyStr, requestedRegistry |-> EmptyStr, requestedImage |-> EmptyStr,
     isRegistryCommand |-> FALSE, resp |-> NoResponse]

\* main(): the flag values become the keys of the two maps, each mapped to
\* true, and the plugin is built from them
main(registryPool, imagePool) ==
    \E R \in FlagSets(registryPool), I \in FlagSets(imagePool) :
        LET registries == [k \in R |-> TRUE]
            images == [k \in I |-> TRUE]
        IN  \E ro \in RangeOrders(registries), io \in RangeOrders(images) :
                plugin = newPlugin(registries, images, ro, io)

Init ==
    /\ main(RegistryPool, ImagePool)
    /\ calls = [w \in Workers |-> Idle]

InitConc ==
    /\ main(ConcRegistryPool, ConcImagePool)
    /\ calls = [w \in Workers |-> Idle]

\* ----------------------------------------------------------------- actions
Finish(w, c, resp) ==
    calls' = [calls EXCEPT ![w] = [c EXCEPT !.pc = "done", !.resp = resp]]

\* AuthZReq, lines 124-128: decode and parse the URI and classify the
\* request.  A URI that does not parse leaves reqURL nil, and processRequest
\* dereferences it at line 93.
classify(req) ==
    LET reqURI == QueryUnescape(req.RequestURI).s
        reqURL == ParseRequestURI(reqURI)
    IN  IF reqURL.nil
        THEN [reqURL |-> reqURL, panic |-> TRUE, imagePath |-> EmptyStr,
              registry |-> EmptyStr, image |-> EmptyStr, isRegistryCommand |-> FALSE]
        ELSE LET r == processRequest(req, reqURL)
             IN  [reqURL |-> reqURL, panic |-> FALSE, imagePath |-> r.imagePath,
                  registry |-> r.registry, image |-> r.image,
                  isRegistryCommand |-> r.isRegistryCommand]

\* classify depends on the request alone: its value for every input
Classified == [req \in Requests \cup ConcRequests |-> classify(req)]

\* AuthZReq, lines 124-135: classify the request, and allow it when it is
\* not a registry command
ReqClassify(w, req) ==
    /\ calls[w].pc = "idle"
    /\ LET r == Classified[req]
           c == [calls[w] EXCEPT !.kind = "Req", !.req = req, !.reqURL = r.reqURL,
                                 !.imagePath = r.imagePath,
                                 !.requestedRegistry = r.registry,
                                 !.requestedImage = r.image,
                                 !.isRegistryCommand = r.isRegistryCommand]
       IN  IF r.panic
           THEN calls' = [calls EXCEPT ![w] = [c EXCEPT !.pc = "panic"]]
           ELSE IF r.isRegistryCommand = FALSE
                THEN Finish(w, c, Response(TRUE, EmptyStr))
                ELSE calls' = [calls EXCEPT ![w] = [c EXCEPT !.pc = "checkRegistries"]]
    /\ UNCHANGED plugin

\* AuthZReq, lines 138-142
ReqCheckRegistries(w) ==
    /\ calls[w].pc = "checkRegistries"
    /\ IF hasAuthorizedRegistries(plugin) = FALSE
       THEN Finish(w, calls[w], Response(FALSE, MsgNoRegistries))
       ELSE calls' = [calls EXCEPT ![w].pc = "checkImages"]
    /\ UNCHANGED plugin

\* AuthZReq, lines 144-147
ReqCheckImages(w) ==
    /\ calls[w].pc = "checkImages"
    /\ IF hasAuthorizedImages(plugin) = FALSE
       THEN Finish(w, calls[w], Response(FALSE, MsgNoImages))
       ELSE calls' = [calls EXCEPT ![w].pc = "lookup"]
    /\ UNCHANGED plugin

\* mutant: the registry list is joined again on every denial
ReqLookup_rejoin(w) ==
    /\ calls[w].pc = "lookup"
    /\ IF isAuthorized(plugin, calls[w].requestedRegistry, calls[w].requestedImage)
       THEN Finish(w, calls[w], Response(TRUE, EmptyStr))
       ELSE \E o \in RangeOrders(plugin.authorizedRegistries) :
                Finish(w, calls[w], Response(FALSE, MsgOnlyFrom \o authRegistries(o)))
    /\ UNCHANGED plugin

\* mutant: the lookup inserts the missing key into the map
ReqLookup_inserting(w) ==
    /\ calls[w].pc = "lookup"
    /\ IF isAuthorized(plugin, calls[w].requestedRegistry, calls[w].requestedImage)
       THEN Finish(w, calls[w], Response(TRUE, EmptyStr))
       ELSE Finish(w, calls[w], Response(FALSE, DeniedMsg(plugin)))
    /\ plugin' = [plugin EXCEPT !.authorizedRegistries =
                     [k \in DOMAIN @ \cup {calls[w].requestedRegistry} |->
                         IF k \in DOMAIN @ THEN @[k] ELSE FALSE]]

\* AuthZReq, lines 150-161
ReqLookup(w) ==
    /\ calls[w].pc = "lookup"
    /\ IF isAuthorized(plugin, calls[w].requestedRegistry, calls[w].requestedImage)
       THEN Finish(w, calls[w], Response(TRUE, EmptyStr))
       ELSE Finish(w, calls[w], Response(FALSE, DeniedMsg(plugin)))
    /\ UNCHANGED plugin

\* mutant: responses are gated like requests
AuthZRes_gated(w, req) ==
    /\ calls[w].pc = "idle"
    /\ Finish(w, [calls[w] EXCEPT !.kind = "Res", !.req = req],
              Response(hasAuthorizedRegistries(plugin), EmptyStr))
    /\ UNCHANGED plugin

\* AuthZRes, lines 166-169
AuthZRes(w, req) ==
    /\ calls[w].pc = "idle"
    /\ Finish(w, [calls[w] EXCEPT !.kind = "Res", !.req = req], Response(TRUE, EmptyStr))
    /\ UNCHANGED plugin

\* the response is handed to the transport (or the panic unwinds the
\* handler) and the worker is free for the next call
Return(w) ==
    /\ calls[w].pc \in {"done", "panic"}
    /\ calls' = [calls EXCEPT ![w] = Idle]
    /\ UNCHANGED plugin

Step(w, requests) ==
    \/ \E req \in requests : ReqClassify(w, req)
    \/ ReqCheckRegistries(w)
    \/ ReqCheckImages(w)
    \/ ReqLookup(w)
    \/ \E req \in requests : AuthZRes(w, req)
    \/ Return(w)

\* one call at a time, over the full input sets
Next == Step(1, Requests)

Spec == Init /\ [][Next]_vars

\* concurrent calls, over a few representative requests
NextConc == \E w \in Workers : Step(w, ConcRequests)

SpecConc == InitConc /\ [][NextConc]_vars

\* ------------------------------------------------------------------ claims
IsReq(w) == calls[w].kind = "Req"
IsDone(w) == calls[w].pc = "done"
Parsed(w) == IsReq(w) /\ ~calls[w].reqURL.nil
registrySet == DOMAIN plugin.authorizedRegistries
imageSet == DOMAIN plugin.authorizedImages

\* C1: a request whose decoded URL path ends neither with
\* "/containers/create" nor with "/images/create" is answered Allow,
\* whatever the two whitelists, the body and the query are.
C1_OtherPathsAllowed ==
    \A w \in Workers :
        (/\ Parsed(w)
         /\ ~HasSuffix(calls[w].reqURL.Path, containersCreate)
         /\ ~HasSuffix(calls[w].reqURL.Path, imagesCreate))
        => IsDone(w) /\ calls[w].resp.Allow = TRUE

C1_Witness ==
    \E w \in Workers :
        /\ Parsed(w) /\ IsDone(w)
        /\ calls[w].reqURL.Path = containersList
        /\ calls[w].req.RequestBody.kind = "object"
        /\ calls[w].req.RequestBody.Image = <<"a", "/", "a">>
        /\ registrySet = {} /\ imageSet = {}
        /\ calls[w].resp.Allow = TRUE

\* C2: a registry operation is denied with "No authorized registries
\* configured" when the registry whitelist is empty, and otherwise with
\* "No authorized images configured" when the image whitelist is empty,
\* also when the other whitelist holds the requested registry or image.
C2_EmptyWhitelistDenies ==
    \A w \in Workers :
        (IsReq(w) /\ IsDone(w) /\ calls[w].isRegistryCommand)
        => /\ registrySet = {} => calls[w].resp = Response(FALSE, MsgNoRegistries)
           /\ (registrySet # {} /\ imageSet = {}) => calls[w].resp = Response(FALSE, MsgNoImages)

C2_Witness ==
    \E w \in Workers :
        /\ IsReq(w) /\ IsDone(w) /\ calls[w].isRegistryCommand
        /\ registrySet = {}
        /\ calls[w].requestedImage \in imageSet
        /\ calls[w].resp = Response(FALSE, MsgNoRegistries)

\* C3: with both whitelists non-empty, a registry operation is allowed
\* exactly when the derived registry is in the registry whitelist and the
\* derived image is in the image whitelist; otherwise it is denied with a
\* message that lists the authorized registries joined by ", ".
C3_AllowIffBothListed ==
    \A w \in Workers :
        (IsReq(w) /\ IsDone(w) /\ calls[w].isRegistryCommand
            /\ registrySet # {} /\ imageSet # {})
        => /\ calls[w].resp.Allow = TRUE <=>
                (calls[w].requestedRegistry \in registrySet
                    /\ calls[w].requestedImage \in imageSet)
           /\ calls[w].resp.Allow = FALSE =>
                \E o \in RangeOrders(plugin.authorizedRegistries) :
                    calls[w].resp.Msg = MsgOnlyFrom \o Join(o, <<",", " ">>)

C3_Witness ==
    \E w \in Workers :
        /\ IsReq(w) /\ IsDone(w) /\ calls[w].isRegistryCommand
        /\ Cardinality(registrySet) = 2 /\ imageSet # {}
        /\ calls[w].requestedRegistry \in registrySet
        /\ calls[w].requestedImage \notin imageSet
        /\ calls[w].resp.Allow = FALSE

\* C4: a non-empty candidate image reference without "/" is classified as
\* registry "library", image the whole candidate, registry operation.
C4_SlashFreeImageIsWhole ==
    \A w \in Workers :
        (Parsed(w) /\ Len(calls[w].imagePath) > 0
            /\ \A i \in 1..Len(calls[w].imagePath) : calls[w].imagePath[i] # "/")
        => /\ calls[w].requestedRegistry = library
           /\ calls[w].requestedImage = calls[w].imagePath
           /\ calls[w].isRegistryCommand = TRUE

\* C5: a pull of a slash-free name x is allowed when "library" is an
\* authorized registry and x an authorized image.
C5_LibraryPullAllowed ==
    \A w \in Workers :
        (/\ Parsed(w) /\ IsDone(w)
         /\ HasSuffix(calls[w].reqURL.Path, imagesCreate)
         /\ Len(calls[w].imagePath) > 0
         /\ \A i \in 1..Len(calls[w].imagePath) : calls[w].imagePath[i] # "/"
         /\ library \in registrySet
         /\ calls[w].imagePath \in imageSet)
        => calls[w].resp.Allow = TRUE

\* C6: a request whose URI cannot be unescaped or parsed, and a container
\* creation whose body cannot be decoded, is handled without a crash,
\* classified as not a registry operation, and allowed.
C6_UnclassifiableAllowed ==
    \A w \in Workers :
        (/\ IsReq(w)
         /\ \/ calls[w].reqURL.nil
            \/ /\ HasSuffix(calls[w].reqURL.Path, containersCreate)
               /\ Unmarshal(calls[w].req.RequestBody).err)
        => /\ IsDone(w)
           /\ calls[w].isRegistryCommand = FALSE
           /\ calls[w].resp.Allow = TRUE

\* C7: a candidate image reference whose first "/" is at position i is
\* classified as registry = what precedes position i, image = the rest from
\* the "/" on, registry operation; registry and image concatenate to the
\* candidate.
C7_SplitAtFirstSlash ==
    \A w \in Workers :
        Parsed(w) =>
            \A i \in 1..Len(calls[w].imagePath) :
                (/\ calls[w].imagePath[i] = "/"
                 /\ \A j \in 1..(i - 1) : calls[w].imagePath[j] # "/")
                => /\ calls[w].requestedRegistry = SubSeq(calls[w].imagePath, 1, i - 1)
                   /\ calls[w].requestedImage = SubSeq(calls[w].imagePath, i, Len(calls[w].imagePath))
                   /\ calls[w].isRegistryCommand = TRUE
                   /\ calls[w].requestedRegistry \o calls[w].requestedImage = calls[w].imagePath

C7_Witness ==
    \E w \in Workers :
        /\ Parsed(w)
        /\ calls[w].imagePath = <<"/">>
        /\ calls[w].requestedRegistry = EmptyStr
        /\ calls[w].requestedImage = <<"/">>
        /\ calls[w].isRegistryCommand = TRUE

\* C8: AuthZRes answers Allow for every input and every policy, also for a
\* request that AuthZReq denies.
C8_ResponsesAllowed ==
    \A w \in Workers :
        calls[w].kind = "Res" => IsDone(w) /\ calls[w].resp.Allow = TRUE

C8_Witness ==
    \E w, v \in Workers :
        /\ calls[w].kind = "Res" /\ IsDone(w)
        /\ IsReq(v) /\ IsDone(v) /\ calls[v].req = calls[w].req
        /\ calls[v].resp.Allow = FALSE
        /\ calls[w].resp.Allow = TRUE
        /\ registrySet = {} /\ imageSet = {}

\* C9: two AuthZReq calls with the same method, URI and body end the same
\* way, with the same Allow and the same Msg, whatever other calls ran in
\* between.
C9_SameRequestSameResponse ==
    \A w, v \in Workers :
        (/\ IsReq(w) /\ IsReq(v)
         /\ calls[w].req = calls[v].req
         /\ calls[w].pc \in {"done", "panic"}
         /\ calls[v].pc \in {"done", "panic"})
        => calls[w].pc = calls[v].pc /\ calls[w].resp = calls[v].resp

C9_Witness ==
    \E w, v \in Workers :
        /\ w # v
        /\ IsReq(w) /\ IsReq(v) /\ IsDone(w) /\ IsDone(v)
        /\ calls[w].req = calls[v].req
        /\ Cardinality(registrySet) = 2
        /\ calls[w].resp.Allow = FALSE
        /\ calls[w].resp.Msg = DeniedMsg(plugin)
        /\ calls[w].resp = calls[v].resp

\* C10: no step of any call changes the policy state, the stored counts
\* are the sizes of the two whitelists, and a step writes the working
\* values of one call only.
CountsMatch ==
    /\ plugin.numAuthorizedRegistries = Cardinality(registrySet)
    /\ plugin.numAuthorizedImages = Cardinality(imageSet)

C10_PolicyImmutable ==
    /\ []CountsMatch
    /\ [][plugin' = plugin]_vars
    /\ [][\A w, v \in Workers :
            (calls'[w] # calls[w] /\ calls'[v] # calls[v]) => w = v]_vars

C10_Witness ==
    \E w, v \in Workers :
        /\ calls[w].pc = "lookup"
        /\ calls[v].pc = "checkImages"
        /\ CountsMatch
        /\ Cardinality(registrySet) = 2

====
